---- MODULE Spec2Model ----
(***************************************************************************)
(* A model of the folkfriend index builder: the MIDI contour extractor     *)
(* (src/build/src/midi.py), the alias canonicaliser and the build driver   *)
(* (src/build/src/build_non_user_data.py and its older sibling in          *)
(* src/build-index/).                                                       *)
(*                                                                         *)
(* Each component is a small state machine of its own (its inputs are      *)
(* drawn in its initial predicate, its operations are its actions); the    *)
(* components share no state, as in the program.  `comp` names the         *)
(* component a behaviour belongs to.                                       *)
(***************************************************************************)
EXTENDS Integers, Sequences, FiniteSets, TLC

VARIABLES
    comp,            \* which component this behaviour exercises
    \* ---- Note.rel_pitch ------------------------------------------------
    pitch,           \* Note.pitch, the argument
    symbol,          \* the value rel_pitch returned (-1 before the call)
    \* ---- CSVMidiNoteReader.to_notes -------------------------------------
    active_notes,    \* dict pitch -> time of the pending Note_on_c
    notes,           \* list of Note(start, end, pitch), also self._notes
    record,          \* the csv record the loop body last ran on
    was_active,      \* whether record's pitch was in active_notes before it
    nrec,            \* number of csv records the reader has yielded
    \* ---- CSVMidiNoteReader.to_midi_contour ------------------------------
    tempo,           \* the tempo argument
    start_seconds,   \* the window arguments, held as 1000 * seconds (ms);
    end_seconds,     \*   0 is None (both are falsy in the `if`)
    idx,             \* number of notes the for loop has taken
    music_time, output_time, midi_contour,
    branch,          \* the branch the last loop iteration took
    contour,         \* the returned string (a sequence of characters)
    qpc,             \* "loop" | "return" (after break) | "done"
    \* ---- clean_alias, deduplicate_aliases, gather_aliases --------------
    alias,           \* clean_alias's argument, a string (sequence of chars)
    cleaned,         \* clean_alias(alias), a set of words
    recleaned,       \* clean_alias of cleaned's words joined by spaces
    aliases,         \* deduplicate_aliases's argument, a list of strings
    deduped,         \* the list deduplicate_aliases returned
    alias_records,   \* gather_aliases's arguments: aliases.json's records
    tune_data,       \*   and tunes.json's settings
    gathered,        \* the dict gather_aliases returned: tune_id -> list
    apc,             \* "call" | the name of the function that returned
    \* ---- build_non_user_data -------------------------------------------
    midi_files,      \* setting ids whose <setting_id>.midi exists in midis/
    tasks,           \* process_map's tasks: setting id -> "pending" |
                     \*   "returned" | "raised"
    contours,        \* setting id -> the contour its task returned
    settings,        \* the `settings` dict of the output file
    bpc              \* "process_map" | "written" | "aborted"

pitchVars == <<pitch, symbol>>
readerVars == <<active_notes, record, was_active, nrec>>
aliasVars == <<alias, cleaned, recleaned, aliases, deduped, alias_records,
               tune_data, gathered, apc>>
buildVars == <<midi_files, tasks, contours, settings, bpc>>
quantVars == <<tempo, start_seconds, end_seconds, idx, music_time,
               output_time, midi_contour, branch, contour, qpc>>

(***************************************************************************)
(* ff_config.py                                                            *)
(***************************************************************************)
MIDI_HIGH == 95
MIDI_LOW == 48
MIDI_NUM == MIDI_HIGH - MIDI_LOW + 1

\* string.ascii_letters, cut to its first MIDI_NUM characters
ascii_letters ==
    <<"a","b","c","d","e","f","g","h","i","j","k","l","m",
      "n","o","p","q","r","s","t","u","v","w","x","y","z",
      "A","B","C","D","E","F","G","H","I","J","K","L","M",
      "N","O","P","Q","R","S","T","U","V","W","X","Y","Z">>
MIDI_MAP == SubSeq(ascii_letters, 1, MIDI_NUM)

(***************************************************************************)
(* Bounds of the model                                                     *)
(***************************************************************************)
MaxPitch == 127          \* pitches are MIDI note numbers 0..MaxPitch
MaxRecords == 4          \* csv records one reader yields
MaxNotes == 2            \* notes of one tune handed to the quantiser
MaxAliasLen == 3         \* characters of an alias handed to clean_alias
MaxAliases == 3          \* aliases of one list handed to deduplicate_aliases
MaxAliasRecords == 2     \* records of aliases.json
MaxSettings == 2         \* settings of one tune in tunes.json
NumSettings == 3         \* settings of tunes.json in one build

\* pitches of the notes of a tune: one at the low edge of the band (folded
\* up an octave), one inside it
NotePitches == {48, 62}
\* times (MIDI ticks) at which events happen
ReaderTimes == {0, 240, 480}
\* start and end ticks of the notes handed to the quantiser: on the quaver
\* grid (240 ticks) and off it
NoteTicks == {0, 1, 240, 242, 480}
\* characters of the strings clean_alias is run on exhaustively
CleanChars == {"a", "s", "S", " ", "'"}
\* longer names it is run on as well
TheBlackbird == <<"T","h","e"," ","B","l","a","c","k","b","i","r","d">>
BlackbirdReel == <<"B","l","a","c","k","b","i","r","d"," ","R","e","e","l">>
blackbird == <<"b","l","a","c","k","b","i","r","d">>
BlackbirdBang == <<"B","l","a","c","k","b","i","r","d","!">>
AshGrove == <<"a","s","h"," ","g","r","o","v","e">>
The == <<"T","h","e">>
PaddysFavorites == <<"P","a","d","d","y","'","s"," ","f","a","v","o","r","i","t","e","s">>
\* display names of tunes, raw aliases of aliases.json, and the aliases
\* deduplicate_aliases is run on
NamePool == {BlackbirdReel, blackbird, The}
AliasPool == {BlackbirdReel, blackbird, AshGrove, The}
DedupPool == AliasPool \cup {TheBlackbird, BlackbirdBang, PaddysFavorites}
TuneIds == {1, 2}

\* the tempo argument: the default, and twice as fast
Tempos == {125, 250}
\* the window arguments as 1000 * seconds (0: None, not given)
WindowStarts == {0, 240}
WindowEnds == {0, 240}

(***************************************************************************)
(* Note.rel_pitch: the two while loops, then the subtraction.              *)
(***************************************************************************)
RECURSIVE FoldUpStrict(_)
FoldUpStrict(p) == IF p < MIDI_LOW THEN FoldUpStrict(p + 12) ELSE p

\* while pitch <= ff_config.MIDI_LOW: pitch += 12
RECURSIVE FoldUp(_)
FoldUp(p) == IF p <= MIDI_LOW THEN FoldUp(p + 12) ELSE p

\* while pitch >= ff_config.MIDI_HIGH: pitch -= 12
RECURSIVE FoldDown(_)
FoldDown(p) == IF p >= MIDI_HIGH THEN FoldDown(p - 12) ELSE p

rel_pitch(p) == FoldDown(FoldUp(p)) - MIDI_LOW

IdlePitch == pitch = 0 /\ symbol = -1
NoRecord == [type |-> "", note |-> -1, time |-> 0]
IdleReader ==
    active_notes = <<>> /\ record = NoRecord /\ was_active = FALSE /\ nrec = 0
IdleAlias ==
    /\ alias = <<>> /\ cleaned = {} /\ recleaned = {} /\ aliases = <<>>
    /\ deduped = <<>> /\ alias_records = <<>> /\ tune_data = <<>>
    /\ gathered = <<>> /\ apc = ""
IdleBuild ==
    /\ midi_files = {} /\ tasks = <<>> /\ contours = <<>>
    /\ settings = <<>> /\ bpc = ""
IdleQuant ==
    /\ tempo = 0 /\ start_seconds = 0 /\ end_seconds = 0 /\ idx = 0
    /\ music_time = 0 /\ output_time = 0 /\ midi_contour = <<>>
    /\ branch = "" /\ contour = <<>> /\ qpc = ""

InitPitch ==
    /\ comp = "rel_pitch"
    /\ pitch \in 0..MaxPitch
    /\ symbol = -1
    /\ notes = <<>>
    /\ IdleReader /\ IdleQuant /\ IdleAlias /\ IdleBuild

RelPitch ==
    /\ comp = "rel_pitch"
    /\ symbol = -1
    /\ symbol' = rel_pitch(pitch)
    /\ UNCHANGED <<comp, pitch, notes, readerVars, quantVars, aliasVars, buildVars>>

(***************************************************************************)
(* CSVMidiNoteReader.to_notes: one action per csv record.  A record is its *)
(* `type`, `note` and `time` fields; a `note` field that is empty or not   *)
(* all digits is -1 (isdigit() is false for it, as for any signed number). *)
(***************************************************************************)
RecordTypes == {"Note_on_c", "Note_off_c", "Control_c"}
NoteFields == NotePitches \cup {-1}

Note(start, end, p) == [start |-> start, end |-> end, pitch |-> p]

NoteOnOverwrite(active, note, time) == (note :> time) @@ active

\* if note not in active_notes: active_notes[note] = time
NoteOn(active, note, time) ==
    IF note \notin DOMAIN active THEN (note :> time) @@ active ELSE active

\* active_notes.pop(note)
Pop(active, note) == [p \in DOMAIN active \ {note} |-> active[p]]

InitNotes ==
    /\ comp = "to_notes"
    /\ active_notes = <<>>
    /\ notes = <<>>
    /\ record = NoRecord
    /\ was_active = FALSE
    /\ nrec = 0
    /\ IdlePitch /\ IdleQuant /\ IdleAlias /\ IdleBuild

ToNotesRecord ==
    /\ comp = "to_notes"
    /\ nrec < MaxRecords
    /\ \E type \in RecordTypes, note \in NoteFields, time \in ReaderTimes :
        /\ time >= record.time            \* the stream is chronological
        /\ record' = [type |-> type, note |-> note, time |-> time]
        /\ was_active' = (note \in DOMAIN active_notes)
        /\ nrec' = nrec + 1
        /\ IF note = -1
           THEN UNCHANGED <<active_notes, notes>>       \* continue
           ELSE IF type = "Note_on_c"
           THEN /\ active_notes' = NoteOn(active_notes, note, time)
                /\ UNCHANGED notes
           ELSE IF type = "Note_off_c"
           THEN IF note \notin DOMAIN active_notes
                THEN UNCHANGED <<active_notes, notes>>  \* continue
                ELSE /\ active_notes' = Pop(active_notes, note)
                     /\ notes' = Append(notes,
                                   Note(active_notes[note], time, note))
           ELSE UNCHANGED <<active_notes, notes>>
    /\ UNCHANGED <<comp, pitchVars, quantVars, aliasVars, buildVars>>

(***************************************************************************)
(* Note.set_tempo and Note.duration.  Times are kept in microseconds      *)
(* (1000 * the ms_scale_factor * t of the code), so that the computation   *)
(* ms_scale_factor = (60000000 / tempo) / 480000 stays in the integers:    *)
(* it is exact for every tempo of Tempos, in floating point as here.       *)
(***************************************************************************)
set_tempo(t, tmp) == (((60000000 \div tmp) * 1000) \div 480000) * t

NoteStart(n, tmp) == set_tempo(n.start, tmp)
NoteEnd(n, tmp) == set_tempo(n.end, tmp)
duration(n, tmp) == NoteEnd(n, tmp) - NoteStart(n, tmp)

\* n = Note(0, 240, None); n.set_tempo(tempo); quaver_duration = n.duration
quaver_duration(tmp) == duration(Note(0, 240, 0), tmp)

\* math.ceil and math.floor of a / b, for a >= 0 and b > 0
Ceil(a, b) == (a + b - 1) \div b
Floor(a, b) == a \div b

RepeatOnce(x, n) == <<x>>

\* [x] * n
Repeat(x, n) == [i \in 1..n |-> x]

(***************************************************************************)
(* The note lists to_notes can return: start <= end, ends in the order of  *)
(* the off events, and two notes of one pitch never overlap (a pitch has   *)
(* one open entry at a time).                                              *)
(***************************************************************************)
NoteSet ==
    {Note(s, e, p) : s \in NoteTicks, e \in NoteTicks, p \in NotePitches}

NoteLists == UNION {[1..k -> NoteSet] : k \in 0..MaxNotes}

ReaderCanReturn(ns) ==
    /\ \A i \in DOMAIN ns : ns[i].start <= ns[i].end
    /\ \A i, j \in DOMAIN ns :
        i < j => /\ ns[i].end <= ns[j].end
                 /\ ns[i].pitch = ns[j].pitch => ns[i].end <= ns[j].start

InitQuant ==
    /\ comp = "to_midi_contour"
    /\ notes \in {ns \in NoteLists : ReaderCanReturn(ns)}
    /\ tempo \in Tempos
    /\ start_seconds \in WindowStarts
    /\ end_seconds \in WindowEnds
    /\ idx = 0
    /\ music_time = 0
    /\ output_time = 0
    /\ midi_contour = <<>>
    /\ branch = ""
    /\ contour = <<>>
    /\ qpc = "loop"
    /\ IdlePitch /\ IdleReader /\ IdleAlias /\ IdleBuild

NoteAtOrAfterWindowEnd(note, tmp, endw) ==
    endw # 0 /\ NoteStart(note, tmp) >= 1000 * endw

\* end_seconds and note.start > 1000 * end_seconds
NoteAfterWindowEnd(note, tmp, endw) ==
    endw # 0 /\ NoteStart(note, tmp) > 1000 * endw

AheadStrictly(music, output) == music < output

\* "If we're ahead": music_time <= output_time
Ahead(music, output) == music <= output

RoundDown(music, output, d, q) == Floor(d, q)

\* round_f = math.ceil if music_time > output_time else math.floor
round_f(music, output, d, q) ==
    IF music > output THEN Ceil(d, q) ELSE Floor(d, q)

\* one iteration of `for _, note in enumerate(self._notes)`
ContourNote ==
    /\ comp = "to_midi_contour"
    /\ qpc = "loop"
    /\ idx < Len(notes)
    /\ LET note == notes[idx + 1]
           d == duration(note, tempo)
           q == quaver_duration(tempo)
           music == music_time + d
       IN
       /\ idx' = idx + 1
       /\ IF start_seconds # 0 /\ NoteEnd(note, tempo) < 1000 * start_seconds
          THEN /\ music_time' = NoteEnd(note, tempo)
               /\ output_time' = NoteEnd(note, tempo)
               /\ branch' = "before_window"
               /\ UNCHANGED <<midi_contour, qpc>>
          ELSE IF NoteAfterWindowEnd(note, tempo, end_seconds)
          THEN /\ branch' = "break"
               /\ qpc' = "return"
               /\ UNCHANGED <<music_time, output_time, midi_contour>>
          ELSE
            /\ music_time' = music
            /\ UNCHANGED qpc
            /\ IF Ahead(music, output_time)
               THEN /\ branch' = "skip"
                    /\ UNCHANGED <<output_time, midi_contour>>
               ELSE IF d % q = 0
               THEN /\ branch' = "integer"
                    /\ output_time' = output_time + d
                    /\ midi_contour' =
                         midi_contour \o Repeat(rel_pitch(note.pitch), d \div q)
               ELSE IF d < q
               THEN /\ branch' = "short"
                    /\ output_time' = output_time + q
                    /\ midi_contour' = Append(midi_contour, rel_pitch(note.pitch))
               ELSE LET rounded_int == round_f(music, output_time, d, q) IN
                    /\ branch' = "round"
                    /\ output_time' = output_time + rounded_int * q
                    /\ midi_contour' =
                         midi_contour \o Repeat(rel_pitch(note.pitch), rounded_int)
    /\ UNCHANGED <<comp, notes, tempo, start_seconds, end_seconds, contour,
                   pitchVars, readerVars, aliasVars, buildVars>>

\* return ''.join(ff_config.MIDI_MAP[n] for n in midi_contour)
ContourReturn ==
    /\ comp = "to_midi_contour"
    /\ \/ qpc = "return"
       \/ qpc = "loop" /\ idx = Len(notes)
    /\ contour' = [i \in DOMAIN midi_contour |-> MIDI_MAP[midi_contour[i] + 1]]
    /\ qpc' = "done"
    /\ UNCHANGED <<comp, notes, tempo, start_seconds, end_seconds, idx,
                   music_time, output_time, midi_contour, branch,
                   pitchVars, readerVars, aliasVars, buildVars>>

(***************************************************************************)
(* Strings are sequences of one-character strings.  CodePoints lists the   *)
(* characters of the model in code point order, which is the order         *)
(* sorted() compares strings by.                                           *)
(***************************************************************************)
CodePoints ==
    <<" ", "!", "'">> \o SubSeq(ascii_letters, 27, 52)
                      \o SubSeq(ascii_letters, 1, 26)

Chars == {CodePoints[i] : i \in DOMAIN CodePoints}
OrdOf == [c \in Chars |-> CHOOSE i \in DOMAIN CodePoints : CodePoints[i] = c]
Ord(c) == OrdOf[c]

ascii_uppercase == {ascii_letters[i] : i \in 27..52}
IsLetter(c) == c \in {ascii_letters[i] : i \in 1..52}

\* str.lower()
LowerOf ==
    [c \in ascii_uppercase |->
        ascii_letters[(CHOOSE i \in 27..52 : ascii_letters[i] = c) - 26]]
LowerChar(c) == IF c \in ascii_uppercase THEN LowerOf[c] ELSE c
lower(str) == [i \in DOMAIN str |-> LowerChar(str[i])]

\* a < b on strings
StrLess(a, b) ==
    \/ \E i \in 1..Len(a) :
          /\ i <= Len(b)
          /\ \A j \in 1..(i - 1) : a[j] = b[j]
          /\ Ord(a[i]) < Ord(b[i])
    \/ /\ Len(a) < Len(b)
       /\ \A j \in 1..Len(a) : a[j] = b[j]

\* sorted(list of strings): a stable insertion sort
RECURSIVE InsertStr(_, _)
InsertStr(sorted, x) ==
    IF sorted = <<>> THEN <<x>>
    ELSE IF StrLess(x, Head(sorted)) THEN <<x>> \o sorted
    ELSE <<Head(sorted)>> \o InsertStr(Tail(sorted), x)

RECURSIVE SortStringsInto(_, _)
SortStringsInto(sorted, list) ==
    IF list = <<>> THEN sorted
    ELSE SortStringsInto(InsertStr(sorted, Head(list)), Tail(list))
SortedStrings(list) == SortStringsInto(<<>>, list)

(***************************************************************************)
(* clean_alias                                                             *)
(***************************************************************************)
STOP_WORDS ==
    {<<"a">>, <<"a","n">>, <<"t","h","e">>, <<"a","t">>,
     <<"b","y">>, <<"f","o","r">>, <<"i","n">>, <<"o","f">>,
     <<"o","n">>, <<"t","o">>, <<"u","p">>, <<"a","n","d">>,
     <<"a","s">>, <<"b","u","t">>, <<"o","r">>, <<"n","o","r">>}

\* NON_WORD_CHARS = re.compile('[^a-zA-Z ]'); NON_WORD_CHARS.sub('', alias)
IsWordChar(c) == c = " " \/ IsLetter(c)
StripNonWordChars(str) == SelectSeq(str, IsWordChar)

\* str.split(): the maximal runs of characters other than the space (the
\* only whitespace NON_WORD_CHARS leaves)
RECURSIVE SplitFrom(_, _, _)
SplitFrom(str, i, word) ==
    IF i > Len(str)
    THEN IF word = <<>> THEN <<>> ELSE <<word>>
    ELSE IF str[i] = " "
    THEN (IF word = <<>> THEN <<>> ELSE <<word>>) \o SplitFrom(str, i + 1, <<>>)
    ELSE SplitFrom(str, i + 1, Append(word, str[i]))
split(str) == SplitFrom(str, 1, <<>>)

IsContentWord(w) == w # <<>> /\ w \notin STOP_WORDS

SingularAlways(w) == IF w # <<>> THEN SubSeq(w, 1, Len(w) - 1) ELSE w

\* w[:-1] if w.endswith('s') else w
Singular(w) ==
    IF w # <<>> /\ w[Len(w)] = "s" THEN SubSeq(w, 1, Len(w) - 1) ELSE w

\* w if not w == 'favorite' else 'favourite'
British(w) ==
    IF w = <<"f","a","v","o","r","i","t","e">>
    THEN <<"f","a","v","o","u","r","i","t","e">>
    ELSE w

clean_alias(str) ==
    LET words == SelectSeq(split(StripNonWordChars(lower(str))), IsContentWord)
    IN  {British(Singular(words[i])) : i \in DOMAIN words}

\* ' '.join(words)
RECURSIVE join(_)
join(words) ==
    IF words = <<>> THEN <<>>
    ELSE IF Len(words) = 1 THEN words[1]
    ELSE words[1] \o <<" ">> \o join(Tail(words))

\* the words of a set, in sorted order
RECURSIVE SetToList(_)
SetToList(S) ==
    IF S = {} THEN <<>>
    ELSE LET w == CHOOSE x \in S : \A y \in S : ~StrLess(y, x)
         IN  <<w>> \o SetToList(S \ {w})

(***************************************************************************)
(* deduplicate_aliases                                                     *)
(***************************************************************************)
\* the first loop: (cleaned_alias, alias) for the first alias of each
\* cleaned set, in input order
KeepLastSeen(pairs, c, a) ==
    Append(SelectSeq(pairs, LAMBDA q : q[1] # c), <<c, a>>)

\* if cleaned_alias not in seen_aliases: ... append((cleaned_alias, alias))
KeepIfUnseen(pairs, c, a) ==
    IF \E i \in DOMAIN pairs : pairs[i][1] = c
    THEN pairs
    ELSE Append(pairs, <<c, a>>)

RECURSIVE FirstOfEachSetInto(_, _)
FirstOfEachSetInto(pairs, list) ==
    IF list = <<>> THEN pairs
    ELSE FirstOfEachSetInto(
             KeepIfUnseen(pairs, clean_alias(Head(list)), Head(list)),
             Tail(list))
FirstOfEachSet(list) == FirstOfEachSetInto(<<>>, list)

\* sorted(deduped_aliases, key=lambda c: len(c[0])): stable
RECURSIVE InsertByLen(_, _)
InsertByLen(sorted, x) ==
    IF sorted = <<>> THEN <<x>>
    ELSE IF Cardinality(x[1]) < Cardinality(Head(sorted)[1])
    THEN <<x>> \o sorted
    ELSE <<Head(sorted)>> \o InsertByLen(Tail(sorted), x)

RECURSIVE SortByLenInto(_, _)
SortByLenInto(sorted, list) ==
    IF list = <<>> THEN sorted
    ELSE SortByLenInto(InsertByLen(sorted, Head(list)), Tail(list))
SortedByLen(list) == SortByLenInto(<<>>, list)

StrictSubsetOfNonEmpty(a, b) == a # {} /\ a \subseteq b /\ a # b

\* cleaned < c on frozensets
StrictSubset(a, b) == a \subseteq b /\ a # b

IsSubsetOfEarlier(pairs, i) ==
    \E j \in 1..i : StrictSubset(pairs[i][1], pairs[j][1])

\* any(cleaned < c for (c, _) in deduped_aliases[i:])
IsSubsetOfLater(pairs, i) ==
    \E j \in i..Len(pairs) : StrictSubset(pairs[i][1], pairs[j][1])

\* the second loop: the aliases that are no strict subset, in sorted order
RECURSIVE NoSubsetsFrom(_, _)
NoSubsetsFrom(pairs, i) ==
    IF i > Len(pairs) THEN <<>>
    ELSE (IF IsSubsetOfLater(pairs, i) THEN <<>> ELSE <<pairs[i][2]>>)
         \o NoSubsetsFrom(pairs, i + 1)

deduplicate_aliases(list) ==
    SortedStrings(NoSubsetsFrom(SortedByLen(FirstOfEachSet(list)), 1))

(***************************************************************************)
(* clean_alias and deduplicate_aliases as operations on drawn inputs       *)
(***************************************************************************)
StringsUpTo(n) == UNION {[1..k -> CleanChars] : k \in 0..n}
ListsUpTo(S, n) == UNION {[1..k -> S] : k \in 0..n}

InitClean ==
    /\ comp = "clean_alias"
    /\ alias \in StringsUpTo(MaxAliasLen) \cup DedupPool
    /\ cleaned = {} /\ recleaned = {} /\ aliases = <<>> /\ deduped = <<>>
    /\ alias_records = <<>> /\ tune_data = <<>> /\ gathered = <<>>
    /\ apc = "call"
    /\ notes = <<>>
    /\ IdlePitch /\ IdleReader /\ IdleQuant /\ IdleBuild

CleanAlias ==
    /\ comp = "clean_alias"
    /\ apc = "call"
    /\ cleaned' = clean_alias(alias)
    /\ apc' = "clean_alias"
    /\ UNCHANGED <<comp, alias, recleaned, aliases, deduped, alias_records,
                   tune_data, gathered, notes, pitchVars, readerVars, quantVars,
                   buildVars>>

\* clean_alias again, on the words it returned joined by spaces
CleanAgain ==
    /\ comp = "clean_alias"
    /\ apc = "clean_alias"
    /\ recleaned' = clean_alias(join(SetToList(cleaned)))
    /\ apc' = "clean_again"
    /\ UNCHANGED <<comp, alias, cleaned, aliases, deduped, alias_records,
                   tune_data, gathered, notes, pitchVars, readerVars, quantVars,
                   buildVars>>

InitDedup ==
    /\ comp = "deduplicate_aliases"
    /\ aliases \in ListsUpTo(DedupPool, MaxAliases)
    /\ alias = <<>> /\ cleaned = {} /\ recleaned = {} /\ deduped = <<>>
    /\ alias_records = <<>> /\ tune_data = <<>> /\ gathered = <<>>
    /\ apc = "call"
    /\ notes = <<>>
    /\ IdlePitch /\ IdleReader /\ IdleQuant /\ IdleBuild

DeduplicateAliases ==
    /\ comp = "deduplicate_aliases"
    /\ apc = "call"
    /\ deduped' = deduplicate_aliases(aliases)
    /\ apc' = "deduplicate_aliases"
    /\ UNCHANGED <<comp, alias, cleaned, recleaned, aliases, alias_records,
                   tune_data, gathered, notes, pitchVars, readerVars, quantVars,
                   buildVars>>

(***************************************************************************)
(* gather_aliases, as src/build has it and as src/build-index has it.  A   *)
(* dict is a function; d[tid] of a defaultdict(list) is Get(d, tid).       *)
(***************************************************************************)
Get(d, tid) == IF tid \in DOMAIN d THEN d[tid] ELSE <<>>
Put(d, tid, list) == (tid :> list) @@ d

\* sorted(alias_records, key=lambda r: int(r['tune_id'])): stable
RECURSIVE InsertByTuneId(_, _)
InsertByTuneId(sorted, r) ==
    IF sorted = <<>> THEN <<r>>
    ELSE IF r.tune_id < Head(sorted).tune_id THEN <<r>> \o sorted
    ELSE <<Head(sorted)>> \o InsertByTuneId(Tail(sorted), r)

RECURSIVE SortByTuneIdInto(_, _)
SortByTuneIdInto(sorted, recs) ==
    IF recs = <<>> THEN sorted
    ELSE SortByTuneIdInto(InsertByTuneId(sorted, Head(recs)), Tail(recs))
SortedByTuneId(recs) == SortByTuneIdInto(<<>>, recs)

\* for alias_record in ...: aliases[tid].append(alias_record['alias'].lower())
RECURSIVE AppendAliases(_, _)
AppendAliases(d, recs) ==
    IF recs = <<>> THEN d
    ELSE LET r == Head(recs) IN
         AppendAliases(Put(d, r.tune_id,
                           Append(Get(d, r.tune_id), lower(r.alias))),
                       Tail(recs))

\* for i, _ in enumerate(tune_data): aliases[tid].append(name.lower())
RECURSIVE AppendNames(_, _)
AppendNames(d, data) ==
    IF data = <<>> THEN d
    ELSE LET r == Head(data) IN
         AppendNames(Put(d, r.tune_id,
                         Append(Get(d, r.tune_id), lower(r.name))),
                     Tail(data))

\* for tid in aliases: aliases[tid] = deduplicate_aliases(aliases[tid])
DeduplicateEach(d) == [tid \in DOMAIN d |-> deduplicate_aliases(d[tid])]

\* if not aliases[tid] or aliases[tid][0] != alias: aliases[tid].insert(0, alias)
InsertName(list, name) ==
    IF list = <<>> \/ list[1] # name THEN <<name>> \o list ELSE list

RECURSIVE InsertNames(_, _)
InsertNames(d, data) ==
    IF data = <<>> THEN d
    ELSE LET r == Head(data) IN
         InsertNames(Put(d, r.tune_id,
                         InsertName(Get(d, r.tune_id), lower(r.name))),
                     Tail(data))

\* src/build/src/build_non_user_data.py
gather_aliases(recs, data) ==
    InsertNames(DeduplicateEach(AppendAliases(<<>>, SortedByTuneId(recs))),
                data)

\* src/build-index/build_non_user_data.py
gather_aliases_index(recs, data) ==
    DeduplicateEach(AppendAliases(AppendNames(<<>>, data),
                                  SortedByTuneId(recs)))

\* the settings of one tune: all carry the tune's name
SettingsOf(tid) ==
    {[i \in 1..k |-> [tune_id |-> tid, name |-> n]] :
        k \in 0..MaxSettings, n \in NamePool}

AliasRecords == [tune_id : TuneIds, alias : AliasPool]

InitGather ==
    /\ comp = "gather_aliases"
    /\ alias_records \in ListsUpTo(AliasRecords, MaxAliasRecords)
    /\ tune_data \in {a \o b : a \in SettingsOf(1), b \in SettingsOf(2)}
    /\ gathered = <<>>
    /\ alias = <<>> /\ cleaned = {} /\ recleaned = {}
    /\ aliases = <<>> /\ deduped = <<>>
    /\ apc = "call"
    /\ notes = <<>>
    /\ IdlePitch /\ IdleReader /\ IdleQuant /\ IdleBuild

GatherAliases ==
    /\ comp = "gather_aliases"
    /\ apc = "call"
    /\ gathered' = gather_aliases(alias_records, tune_data)
    /\ apc' = "gather_aliases"
    /\ UNCHANGED <<comp, alias, cleaned, recleaned, aliases, deduped,
                   alias_records, tune_data, notes, pitchVars, readerVars,
                   quantVars, buildVars>>

GatherAliasesIndex ==
    /\ comp = "gather_aliases"
    /\ apc = "call"
    /\ gathered' = gather_aliases_index(alias_records, tune_data)
    /\ apc' = "gather_aliases_index"
    /\ UNCHANGED <<comp, alias, cleaned, recleaned, aliases, deduped,
                   alias_records, tune_data, notes, pitchVars, readerVars,
                   quantVars, buildVars>>

(***************************************************************************)
(* build_non_user_data: the tasks of process_map, one per setting, run in  *)
(* any order; then the merge of their results into `settings` and the      *)
(* write of the output file.  What abc2midi does with a setting's abc      *)
(* (whether it writes the midi file, whether it prints to stderr) and the  *)
(* contour the written file yields are the task's inputs.                  *)
(***************************************************************************)
SettingIds == 1..NumSettings
\* contours a midi file can yield: none (no note in the file) or some
Contours == {<<>>, <<"m">>, <<"m", "o">>}

\* clean_thesession_data's result, one dict per setting
cleaned_thesession_data ==
    [sid \in SettingIds |-> ("setting_id" :> sid) @@ ("abc" :> "|:abc:|")]

\* del settings[setting['setting_id']]['setting_id']
DelKey(d, key) == [k \in DOMAIN d \ {key} |-> d[k]]

InitBuild ==
    /\ comp = "build_non_user_data"
    /\ midi_files \in SUBSET SettingIds      \* left by an earlier build
    /\ tasks = [sid \in SettingIds |-> "pending"]
    /\ contours = <<>>
    /\ settings = <<>>
    /\ bpc = "process_map"
    /\ notes = <<>>
    /\ IdlePitch /\ IdleReader /\ IdleQuant /\ IdleAlias

\* generate_midi_contour((setting, midis_dir)) in a worker process
GenerateMidiContour(sid) ==
    /\ comp = "build_non_user_data"
    /\ bpc = "process_map"
    /\ tasks[sid] = "pending"
    /\ \E writes \in BOOLEAN, stderr \in BOOLEAN, c \in Contours :
        LET convert == sid \notin midi_files    \* not os.path.exists(...)
            files == IF convert /\ writes THEN midi_files \cup {sid}
                     ELSE midi_files
        IN
        /\ midi_files' = files
        /\ IF convert /\ stderr
           \* log.warning(stderr, file=sys.stderr): Logger.warning takes no
           \* `file` argument, the call raises TypeError
           THEN tasks' = [tasks EXCEPT ![sid] = "raised"] /\ UNCHANGED contours
           ELSE IF sid \notin files
           \* py_midicsv.midi_to_csv(midi_path) opens a file that is not there
           THEN tasks' = [tasks EXCEPT ![sid] = "raised"] /\ UNCHANGED contours
           ELSE /\ tasks' = [tasks EXCEPT ![sid] = "returned"]
                /\ contours' = (sid :> c) @@ contours
    /\ UNCHANGED <<comp, settings, bpc, notes, pitchVars, readerVars,
                   quantVars, aliasVars>>

\* process_map returns, or re-raises what a task raised; the two loops
\* over cleaned_thesession_data and contours; json.dump
MergeAndWrite ==
    /\ comp = "build_non_user_data"
    /\ bpc = "process_map"
    /\ \A sid \in SettingIds : tasks[sid] # "pending"
    /\ IF \E sid \in SettingIds : tasks[sid] = "raised"
       THEN /\ bpc' = "aborted"
            /\ UNCHANGED settings
       ELSE /\ bpc' = "written"
            /\ settings' =
                 [sid \in SettingIds |->
                    ("contour" :> contours[sid])
                        @@ DelKey(cleaned_thesession_data[sid], "setting_id")]
    /\ UNCHANGED <<comp, midi_files, tasks, contours, notes, pitchVars,
                   readerVars, quantVars, aliasVars>>

vars == <<comp, pitchVars, notes, readerVars, quantVars, aliasVars, buildVars>>

SpecPitch == InitPitch /\ [][RelPitch]_vars
SpecNotes == InitNotes /\ [][ToNotesRecord]_vars
SpecQuant == InitQuant /\ [][ContourNote \/ ContourReturn]_vars
SpecClean == InitClean /\ [][CleanAlias \/ CleanAgain]_vars
SpecDedup == InitDedup /\ [][DeduplicateAliases]_vars
SpecGather == InitGather /\ [][GatherAliases \/ GatherAliasesIndex]_vars
BuildTask == \E sid \in SettingIds : GenerateMidiContour(sid)
SpecBuild == InitBuild /\ [][BuildTask \/ MergeAndWrite]_vars

Init ==
    \/ InitPitch \/ InitNotes \/ InitQuant \/ InitClean \/ InitDedup
    \/ InitGather \/ InitBuild
Next ==
    \/ RelPitch
    \/ ToNotesRecord
    \/ ContourNote \/ ContourReturn
    \/ CleanAlias \/ CleanAgain
    \/ DeduplicateAliases
    \/ GatherAliases \/ GatherAliasesIndex
    \/ BuildTask \/ MergeAndWrite
Spec == Init /\ [][Next]_vars

(***************************************************************************)
(* C1: for every pitch p in 0..127, rel_pitch returns f - MIDI_LOW where   *)
(* MIDI_LOW < f < MIDI_HIGH and f is congruent to p modulo 12, so the      *)
(* returned value indexes the alphabet of MIDI_NUM symbols.                *)
(***************************************************************************)
C1_PitchFolderInBand ==
    symbol # -1 =>
        LET f == symbol + MIDI_LOW IN
        /\ MIDI_LOW < f /\ f < MIDI_HIGH
        /\ f % 12 = pitch % 12
        /\ symbol \in 0..(MIDI_NUM - 1)
        /\ symbol + 1 \in DOMAIN MIDI_MAP

\* a pitch at the low edge of the band has been folded up an octave
C1_Witness == comp = "rel_pitch" /\ pitch = MIDI_LOW /\ symbol = 12
(***************************************************************************)
(* C9: an off event for a pitch with no open entry, and an on event for a  *)
(* pitch that is already open, change neither the open-pitch map (the      *)
(* recorded open time included) nor the list of emitted notes.             *)
(***************************************************************************)
C9_UnmatchedEventsAreNoOps ==
    [][(/\ nrec' = nrec + 1
        /\ \/ /\ record'.type = "Note_off_c"
              /\ record'.note \notin DOMAIN active_notes
           \/ /\ record'.type = "Note_on_c"
              /\ record'.note \in DOMAIN active_notes)
       => (active_notes' = active_notes /\ notes' = notes)]_vars

\* a second on for an open pitch arrived later than the first, and an off
\* arrived for a pitch that was not open
C9_Witness ==
    /\ comp = "to_notes"
    /\ \/ /\ record.type = "Note_on_c" /\ record.note # -1 /\ was_active
          /\ record.time > active_notes[record.note]
       \/ /\ record.type = "Note_off_c" /\ record.note # -1 /\ ~was_active
          /\ active_notes # <<>>

(***************************************************************************)
(* C2: after any prefix of any note sequence, the emitted duration         *)
(* output_time and the consumed duration music_time differ by at most one  *)
(* quaver_duration.                                                        *)
(***************************************************************************)
C2_DriftWithinOneQuaver ==
    comp = "to_midi_contour" =>
        /\ output_time - music_time <= quaver_duration(tempo)
        /\ music_time - output_time <= quaver_duration(tempo)

(***************************************************************************)
(* Helpers of the alias claims                                             *)
(***************************************************************************)
Range(list) == {list[i] : i \in DOMAIN list}
GatherDone == apc \in {"gather_aliases", "gather_aliases_index"}
\* the raw aliases aliases.json holds for a tune, lower-cased
RawAliases(tid) ==
    {lower(alias_records[i].alias) :
        i \in {k \in DOMAIN alias_records : alias_records[k].tune_id = tid}}
DisplayNames(tid) ==
    {lower(tune_data[i].name) :
        i \in {k \in DOMAIN tune_data : tune_data[k].tune_id = tid}}

(***************************************************************************)
(* C3: after alias gathering, for every tune that has a setting, the first *)
(* element of the tune's alias list is the tune's display name             *)
(* lower-cased, whatever raw alias records exist for the tune.             *)
(***************************************************************************)
C3_DisplayNameFirst ==
    GatherDone =>
        \A i \in DOMAIN tune_data :
            /\ tune_data[i].tune_id \in DOMAIN gathered
            /\ gathered[tune_data[i].tune_id] # <<>>
            /\ gathered[tune_data[i].tune_id][1] = lower(tune_data[i].name)

\* what src/build's gather_aliases does guarantee: the statement of C3
\* holds of every list it returns
DisplayNameFirstInBuild == apc = "gather_aliases" => C3_DisplayNameFirst

(***************************************************************************)
(* C4: in the final alias list of every tune (src/build, after the display *)
(* name has been put in front) the strings are pairwise distinct and their *)
(* canonical token sets are pairwise non-equal and pairwise non-subset.    *)
(***************************************************************************)
C4_GroupPairwiseDistinct ==
    apc = "gather_aliases" =>
        \A tid \in DOMAIN gathered :
            \A i, j \in DOMAIN gathered[tid] :
                i # j =>
                    /\ gathered[tid][i] # gathered[tid][j]
                    /\ ~(clean_alias(gathered[tid][i])
                            \subseteq clean_alias(gathered[tid][j]))

(***************************************************************************)
(* C5 as claimed: no alias whose canonical token set is empty appears in   *)
(* a tune's output alias list.                                             *)
(***************************************************************************)
C5_NoEmptyTokenSetEmitted ==
    GatherDone =>
        \A tid \in DOMAIN gathered :
            \A i \in DOMAIN gathered[tid] :
                clean_alias(gathered[tid][i]) # {}

(***************************************************************************)
(* C5 as amended: an alias whose canonical token set is empty appears in   *)
(* a tune's output alias list only if it is the tune's display name or     *)
(* every raw alias of the tune has an empty canonical token set.           *)
(***************************************************************************)
C5_EmptyTokenSetOnlyIfNameOrAllEmpty ==
    GatherDone =>
        \A tid \in DOMAIN gathered :
            \A i \in DOMAIN gathered[tid] :
                clean_alias(gathered[tid][i]) = {} =>
                    \/ gathered[tid][i] \in DisplayNames(tid)
                    \/ \A a \in RawAliases(tid) : clean_alias(a) = {}

\* src/build gathered a tune whose only raw alias is "the": it is emitted,
\* after the display name
C5_Witness ==
    /\ apc = "gather_aliases"
    /\ \E tid \in DOMAIN gathered :
        /\ RawAliases(tid) = {lower(The)}
        /\ DisplayNames(tid) = {lower(BlackbirdReel)}
        /\ gathered[tid] = <<lower(BlackbirdReel), lower(The)>>

(***************************************************************************)
(* C6: an alias whose canonical token set is a strict subset of that of    *)
(* another alias of the same input list never appears in the output of     *)
(* deduplicate_aliases.                                                    *)
(***************************************************************************)
C6_NoStrictSubsetSurvives ==
    apc = "deduplicate_aliases" =>
        \A i, j \in DOMAIN aliases :
            StrictSubset(clean_alias(aliases[i]), clean_alias(aliases[j]))
                => aliases[i] \notin Range(deduped)

\* "the blackbird" and "blackbird" both give way to "blackbird reel"
C6_Witness ==
    /\ apc = "deduplicate_aliases"
    /\ aliases = <<TheBlackbird, BlackbirdReel, blackbird>>
    /\ deduped = <<BlackbirdReel>>

(***************************************************************************)
(* C7: of the aliases of one input list that have the same canonical token *)
(* set, at most one appears in the output of deduplicate_aliases, and it   *)
(* is the one that occurs first in the input.                              *)
(***************************************************************************)
C7_FirstOccurrenceWins ==
    apc = "deduplicate_aliases" =>
        \A i \in DOMAIN aliases :
            LET same == {k \in DOMAIN aliases :
                            clean_alias(aliases[k]) = clean_alias(aliases[i])}
                first == CHOOSE k \in same : \A m \in same : k <= m
            IN  /\ \A k \in same :
                     aliases[k] \in Range(deduped) => aliases[k] = aliases[first]
                /\ Cardinality({m \in DOMAIN deduped :
                       clean_alias(deduped[m]) = clean_alias(aliases[i])}) <= 1

\* "Blackbird!" came before "blackbird" and is the one kept
C7_Witness ==
    /\ apc = "deduplicate_aliases"
    /\ aliases = <<BlackbirdBang, AshGrove, blackbird>>
    /\ deduped = <<BlackbirdBang, AshGrove>>

(***************************************************************************)
(* C8 as claimed: cleaning the words of clean_alias(alias), joined by      *)
(* spaces, gives clean_alias(alias) again.                                 *)
(***************************************************************************)
C8_CleanIdempotent ==
    apc = "clean_again" => recleaned = cleaned

(***************************************************************************)
(* C8 as amended: clean_alias is idempotent on every alias none of whose   *)
(* cleaned words is empty, ends in "s" or is a stopword.                   *)
(***************************************************************************)
Stable(w) == w # <<>> /\ w[Len(w)] # "s" /\ w \notin STOP_WORDS

C8_CleanIdempotentOnStableWords ==
    (apc = "clean_again" /\ \A w \in cleaned : Stable(w))
        => recleaned = cleaned

\* "Paddy's favorites" cleaned twice: {"paddy", "favourite"} both times
C8_Witness ==
    /\ apc = "clean_again"
    /\ alias = PaddysFavorites
    /\ cleaned = {<<"p","a","d","d","y">>,
                  <<"f","a","v","o","u","r","i","t","e">>}
    /\ recleaned = cleaned

(***************************************************************************)
(* C10: if the conversion of one setting fails or yields no event stream   *)
(* (or the converter writes diagnostic output), the build is not aborted:  *)
(* the output is written, every other setting has its contour, and the     *)
(* failing setting is in the settings map without a "contour" field.       *)
(***************************************************************************)
NoContour(sid) ==
    tasks[sid] = "raised" \/ (tasks[sid] = "returned" /\ contours[sid] = <<>>)

C10_FailedSettingKeptWithoutContour ==
    (/\ comp = "build_non_user_data"
     /\ bpc # "process_map"
     /\ Cardinality({sid \in SettingIds : NoContour(sid)}) = 1)
    =>  /\ bpc = "written"
        /\ DOMAIN settings = SettingIds
        /\ \A sid \in SettingIds :
            IF NoContour(sid)
            THEN "contour" \notin DOMAIN settings[sid]
            ELSE /\ "contour" \in DOMAIN settings[sid]
                 /\ settings[sid]["contour"] = contours[sid]

(***************************************************************************)
(* Helpers of the quantizer claims                                         *)
(***************************************************************************)
\* def to_midi_contour(self, tempo=125, ...)
DefaultTempo == 125

\* the ticks of the dummy quaver Note(0, 240, None)
QuaverTicks == 240

NoWindow == start_seconds = 0 /\ end_seconds = 0

\* each note lasts a positive whole number of quavers and starts at the
\* tick its predecessor ended at
BackToBackQuavers(ns) ==
    \A i \in DOMAIN ns :
        /\ ns[i].end > ns[i].start
        /\ (ns[i].end - ns[i].start) % QuaverTicks = 0
        /\ i > 1 => ns[i].start = ns[i - 1].end

SymbolOf(note) == MIDI_MAP[rel_pitch(note.pitch) + 1]

RECURSIVE QuaverCopies(_)
QuaverCopies(ns) ==
    IF ns = <<>> THEN <<>>
    ELSE LET note == Head(ns) IN
         [i \in 1..((note.end - note.start) \div QuaverTicks) |-> SymbolOf(note)]
             \o QuaverCopies(Tail(ns))

RECURSIVE TotalTicks(_)
TotalTicks(ns) ==
    IF ns = <<>> THEN 0
    ELSE (Head(ns).end - Head(ns).start) + TotalTicks(Tail(ns))

(***************************************************************************)
(* C11: at the default tempo with no window, for back-to-back notes each   *)
(* lasting a positive whole number of quavers, the returned contour is,    *)
(* note by note and in note order, duration / 240 copies of the note's     *)
(* folded-pitch symbol, so its length is the total duration / 240.         *)
(***************************************************************************)
C11_WholeQuaversEmittedExactly ==
    (/\ comp = "to_midi_contour"
     /\ qpc = "done"
     /\ tempo = DefaultTempo
     /\ NoWindow
     /\ BackToBackQuavers(notes))
    =>  /\ contour = QuaverCopies(notes)
        /\ Len(contour) * QuaverTicks = TotalTicks(notes)

\* two one-quaver notes of different pitch, one after the other, gave one
\* symbol each
C11_Witness ==
    /\ comp = "to_midi_contour"
    /\ qpc = "done"
    /\ tempo = DefaultTempo
    /\ NoWindow
    /\ Len(notes) = 2
    /\ BackToBackQuavers(notes)
    /\ notes[1].pitch # notes[2].pitch
    /\ contour = <<SymbolOf(notes[1]), SymbolOf(notes[2])>>

\* the loop is about to take the note at position idx + 1
AtLoopNote == comp = "to_midi_contour" /\ qpc = "loop" /\ idx < Len(notes)

\* start_seconds and note.end < 1000 * start_seconds
BeforeWindowStart(note) ==
    start_seconds # 0 /\ NoteEnd(note, tempo) < 1000 * start_seconds

(***************************************************************************)
(* C12 as claimed: with a window end set, the first note that starts at   *)
(* or after the window end (start >= 1000 * end_seconds) ends the walk:    *)
(* neither that note nor any note after it adds a symbol, a note starting  *)
(* exactly at the window end included.                                     *)
(***************************************************************************)
C12_StopsAtOrAfterWindowEnd ==
    [][(/\ AtLoopNote
        /\ idx' = idx + 1
        /\ end_seconds # 0
        /\ \E i \in 1..(idx + 1) :
              NoteStart(notes[i], tempo) >= 1000 * end_seconds)
       => midi_contour' = midi_contour]_vars

(***************************************************************************)
(* C12 amended: with a window end set, the walk stops at the first note    *)
(* not passed over by the window-start test whose start is strictly after  *)
(* the window end (start > 1000 * end_seconds): that note adds no symbol   *)
(* and moves neither clock, and nothing is added once the walk has         *)
(* stopped.  A note that starts exactly at the window end, or before it,   *)
(* does not stop the walk: its duration is added to music_time.            *)
(***************************************************************************)
C12_StopsStrictlyAfterWindowEnd ==
    [][/\ (/\ AtLoopNote
           /\ idx' = idx + 1
           /\ end_seconds # 0
           /\ ~BeforeWindowStart(notes[idx + 1]))
          => IF NoteStart(notes[idx + 1], tempo) > 1000 * end_seconds
             THEN /\ qpc' = "return"
                  /\ midi_contour' = midi_contour
                  /\ music_time' = music_time
                  /\ output_time' = output_time
             ELSE /\ qpc' = "loop"
                  /\ music_time' =
                       music_time + duration(notes[idx + 1], tempo)
       /\ qpc # "loop" => midi_contour' = midi_contour]_vars

\* the first note gave its symbol, the second started after the window end
\* and stopped the walk
C12_Witness ==
    /\ comp = "to_midi_contour"
    /\ qpc = "done"
    /\ branch = "break"
    /\ idx = 2
    /\ NoteStart(notes[2], tempo) > 1000 * end_seconds
    /\ contour = <<SymbolOf(notes[1])>>

\* two notes in one time slot: the same start and end tick
SameSlot(a, b) == a.start = b.start /\ a.end = b.end

\* the note the loop is about to take shares its slot with an earlier note
AtChordNote ==
    /\ AtLoopNote
    /\ \E i \in 1..idx : SameSlot(notes[i], notes[idx + 1])

(***************************************************************************)
(* C13 as claimed: of the notes that occupy one time slot (the same start  *)
(* and end tick) only the first adds symbols to the contour; every later   *)
(* one is passed over.                                                     *)
(***************************************************************************)
C13_OnlyFirstOfSlotContributes ==
    [][(AtChordNote /\ idx' = idx + 1)
       => midi_contour' = midi_contour]_vars

(***************************************************************************)
(* C13 amended: a note inside the window that shares its slot with an      *)
(* earlier note is passed over by the music_time <= output_time test       *)
(* exactly when music_time, the running sum of the durations of the notes  *)
(* taken so far, is still at most output_time after the note's own         *)
(* duration is added; it then changes neither output_time nor the          *)
(* contour.  Otherwise it is quantised like any other note, and adds at    *)
(* least one symbol if it has a positive duration.                         *)
(***************************************************************************)
C13_ChordNoteSkippedOnlyWhenAhead ==
    [][(/\ AtChordNote
        /\ idx' = idx + 1
        /\ ~BeforeWindowStart(notes[idx + 1])
        /\ ~(end_seconds # 0
             /\ NoteStart(notes[idx + 1], tempo) > 1000 * end_seconds))
       => LET d == duration(notes[idx + 1], tempo) IN
          /\ branch' = "skip" <=> music_time + d <= output_time
          /\ branch' = "skip" =>
                midi_contour' = midi_contour /\ output_time' = output_time
          /\ (branch' # "skip" /\ d > 0) =>
                Len(midi_contour') > Len(midi_contour)]_vars

\* a chord of two notes shorter than a quaver: the first was rounded up to
\* one quaver, which put the output ahead, and the second was passed over
C13_Witness ==
    /\ comp = "to_midi_contour"
    /\ NoWindow
    /\ idx = 2
    /\ SameSlot(notes[1], notes[2])
    /\ notes[1].pitch # notes[2].pitch
    /\ notes[2].end > notes[2].start
    /\ branch = "skip"
    /\ midi_contour = <<rel_pitch(notes[1].pitch)>>

(***************************************************************************)
(* C14: whenever the branch for a relative duration that is not whole and  *)
(* above 1 is taken, music_time (the note's duration added) is above       *)
(* output_time, so round_f is math.ceil and the note adds                  *)
(* ceil(duration / quaver_duration) symbols; and after every note taken    *)
(* output_time >= music_time.                                              *)
(***************************************************************************)
C14_RoundsUpAndOutputNotBehind ==
    [][/\ (AtLoopNote /\ idx' = idx + 1 /\ branch' = "round")
          => LET d == duration(notes[idx + 1], tempo)
                 q == quaver_duration(tempo)
             IN
             /\ music_time' = music_time + d
             /\ music_time' > output_time
             /\ d > q /\ d % q # 0
             /\ Len(midi_contour') = Len(midi_contour) + Ceil(d, q)
             /\ Ceil(d, q) = Floor(d, q) + 1
             /\ output_time' = output_time + Ceil(d, q) * q
       /\ (comp = "to_midi_contour" /\ idx' = idx + 1)
          => output_time' >= music_time']_vars

\* after an earlier note, a note of a quaver and a bit was rounded up to two
\* quavers: the output is ahead of the music
C14_Witness ==
    /\ comp = "to_midi_contour"
    /\ branch = "round"
    /\ idx = 2
    /\ Len(midi_contour) >= 3
    /\ output_time > music_time
====
